---- MODULE Spec2Model ----
(***************************************************************************)
(* Model of scripts/index.ts: the registry search walker that fetches      *)
(* PAGES_PER_QUERY pages per query through the retrying getPage, extracts   *)
(* publisher and maintainer emails, filters them against the sent and the   *)
(* already-emitted sets and writes one file per query.                      *)
(*                                                                          *)
(* The program is a single async control flow.  pc is the position of that  *)
(* flow; the positions "fetch", "wait800", "json" and "wait5000" are the     *)
(* awaits of getPage, the only places where the event loop can deliver the   *)
(* completion of an fs.writeFile that the main loop started without         *)
(* awaiting it.                                                             *)
(***************************************************************************)
EXTENDS Integers, Sequences, FiniteSets, TLC

\* ----------------------------------------------------------------- bounds
\* Longest query list read from queries.txt.
MaxQueries == 2
\* Pages walked per query: 40 in the source (index.ts:56), scaled down.
PAGES_PER_QUERY == 2
\* Largest retry budget getPage is started with when checked on its own.
MaxRetries == 3
\* Longest maintainers array of a package handed to getEmailsFromPackage.
MaxMaintainers == 2
\* Pages the top-packages script requests (40 in the source).
requestAmount == 2
\* Largest page size the registry serves (250 in the source).
RegistryMax == 2

\* ------------------------------------------------------ program constants
\* getPage(page, query, retries = 2)
DefaultRetries == 2
\* The 10000 packages the top-packages script expects: requestAmount pages
\* of the largest size (40 * 250).
TopTotal == requestAmount * RegistryMax

\* ------------------------------------------------------------ input data
\* A JS value that is undefined / null (a missing JSON field).
Undefined == "undefined"

QueryNames == {"foo", "bar"}

\* queries.txt split on LINE_PATTERN: split() yields at least one element.
\* The two names are interchangeable, so the first one is fixed; a list may
\* hold the same name twice.
QueryLists ==
  {q \in UNION {[1..n -> QueryNames] : n \in 1..MaxQueries} : q[1] = "foo"}

\* The sets sent_emails.txt can hold.
SentSets == {{}, {"a@x.com"}, {"b@x.com", "c@x.com"}}

\* Package records as decoded from the registry's JSON.  Only the fields the
\* program reads are kept: name, publisher.email, maintainers[].email.
\* publisher.present = FALSE is a package without a publisher field;
\* maintainers.kind is "absent" (no field), "object" (a truthy value that is
\* not an array) or "array".
P1 ==
  [name |-> "n1",
   publisher |-> [present |-> TRUE, email |-> "a@x.com"],
   maintainers |-> [kind |-> "array",
                    items |-> <<[email |-> "b@x.com"], [email |-> "a@x.com"]>>]]

P2 ==
  [name |-> "n2",
   publisher |-> [present |-> FALSE, email |-> Undefined],
   maintainers |-> [kind |-> "array",
                    items |-> <<[email |-> "c@x.com"], [email |-> ""],
                                [email |-> "b@x.com"], [email |-> "c@x.com"]>>]]

\* What one page of the registry can hold (response.objects[].package).
PageResults == {<<P1>>, <<P2>>}

\* The packages getEmailsFromPackage is checked on, on its own.
EmailValues == {"a@x.com", "b@x.com", "", Undefined}

Publishers ==
  {[present |-> FALSE, email |-> Undefined]}
    \cup {[present |-> TRUE, email |-> e] : e \in EmailValues}

MaintainerArrays ==
  UNION {[1..n -> [email : EmailValues]] : n \in 0..MaxMaintainers}

MaintainersValues ==
  {[kind |-> "absent", items |-> <<>>], [kind |-> "object", items |-> <<>>]}
    \cup {[kind |-> "array", items |-> a] : a \in MaintainerArrays}

PackageDomain ==
  [name : {"n1"}, publisher : Publishers, maintainers : MaintainersValues]

\* ----------------------------------------------------------------- state
VARIABLES
  queries,          \* const queries: string[]
  sentEmailsSet,    \* const sentEmailsSet
  newEmailsSet,     \* const newEmailsSet
  allPackagesSet,   \* const allPackagesSet: Set<Package>, a set of objects
  qi,               \* position of the for..of loop in queries (1-based)
  page,             \* i of getPackages
  completed,        \* completed of getPackages
  packages,         \* packages of getPackages / of the main loop body
  pageCalls,        \* the pages getPackages called getPage for, in call order
  pageResults,      \* the values those calls returned, in return order
  fetchedPackages,  \* the value the last getPage call returned
  retries,          \* retries of the running getPage invocation
  budget,           \* retries of the outermost getPage invocation
  attempts,         \* fetch() calls made since the outermost invocation
  err,              \* err caught by the running getPage invocation
  inFlight,         \* HTTP requests issued and not yet settled
  throttled,        \* wait(800) has elapsed in the running attempt
  sinceRequest,     \* "none": no request issued yet; else whether a wait()
                    \* has elapsed since the last request was issued
  retryLogs,        \* "retry" lines logged since the outermost invocation
  nextRef,          \* identity of the next object JSON decoding allocates
  iterations,       \* per finished loop iteration: what the filter saw and kept
  writes,           \* the fs.writeFile calls made, in call order
  files,            \* contents of data/out
  log,              \* kinds of console.log lines printed
  summary,          \* the numbers of the final console.log, once printed
  lastError,        \* the error that ended the process, if any
  pc,               \* position of the control flow
  pkg,              \* pkg of getEmailsFromPackage, checked on its own
  emails            \* emails returned by getEmailsFromPackage

vars ==
  <<queries, sentEmailsSet, newEmailsSet, allPackagesSet, qi, page, completed,
    packages, pageCalls, pageResults, fetchedPackages, retries, budget,
    attempts, err, inFlight,
    throttled, sinceRequest, retryLogs, nextRef, iterations, writes, files,
    log, summary, lastError, pc, pkg, emails>>

\* The variables of the main loop and of the output writer.
mainVars ==
  <<queries, sentEmailsSet, newEmailsSet, allPackagesSet, qi, iterations,
    writes, files, summary>>

\* The variables of getPackages.
walkVars == <<page, completed, packages, pageCalls, pageResults>>

\* What is recorded of getPage's delays and log lines.
timingVars == <<throttled, sinceRequest, retryLogs>>

\* The variables of getEmailsFromPackage checked on its own.
extractVars == <<pkg, emails>>

\* ------------------------------------------------------------- helpers
Range(s) == {s[i] : i \in 1..Len(s)}

\* JS truthiness of a string-or-undefined value.
Truthy(v) == v # Undefined /\ v # ""

\* Array.prototype.indexOf, 1-based; 0 when absent (JS: 0-based, -1).
IndexOf_Last(s, e) ==
  IF \E i \in 1..Len(s) : s[i] = e
  THEN CHOOSE i \in 1..Len(s) : s[i] = e /\ \A j \in (i+1)..Len(s) : s[j] # e
  ELSE 0

IndexOf(s, e) ==
  IF \E i \in 1..Len(s) : s[i] = e
  THEN CHOOSE i \in 1..Len(s) : s[i] = e /\ \A j \in 1..(i-1) : s[j] # e
  ELSE 0

\* pkg.maintainers.map((m) => m.email).filter(e => !!e)
RECURSIVE TruthyEmails(_)
TruthyEmails(items) ==
  IF items = <<>> THEN <<>>
  ELSE (IF Truthy(Head(items).email) THEN <<Head(items).email>> ELSE <<>>)
         \o TruthyEmails(Tail(items))

RECURSIVE AllEmails(_)
AllEmails(items) ==
  IF items = <<>> THEN <<>>
  ELSE <<Head(items).email>> \o AllEmails(Tail(items))

getEmailsFromPackage_NoFilter(p) ==
  (IF p.publisher.present /\ Truthy(p.publisher.email)
   THEN <<p.publisher.email>> ELSE <<>>)
  \o (IF p.maintainers.kind = "array"
      THEN AllEmails(p.maintainers.items) ELSE <<>>)

getEmailsFromPackage(p) ==
  (IF p.publisher.present /\ Truthy(p.publisher.email)
   THEN <<p.publisher.email>> ELSE <<>>)
  \o (IF p.maintainers.kind = "array"
      THEN TruthyEmails(p.maintainers.items) ELSE <<>>)

\* packages.flatMap((pkg) => getEmailsFromPackage(pkg))
RECURSIVE FlatMapEmails(_)
FlatMapEmails(pkgs) ==
  IF pkgs = <<>> THEN <<>>
  ELSE getEmailsFromPackage(Head(pkgs)) \o FlatMapEmails(Tail(pkgs))

\* The filter callback of the main loop.
KeepEmail_NoSentCheck(email, i, unfiltered) ==
  /\ IndexOf(unfiltered, email) = i
  /\ email \notin newEmailsSet

KeepEmail_NoNewCheck(email, i, unfiltered) ==
  /\ IndexOf(unfiltered, email) = i
  /\ email \notin sentEmailsSet

KeepEmail(email, i, unfiltered) ==
  /\ IndexOf(unfiltered, email) = i
  /\ email \notin sentEmailsSet
  /\ email \notin newEmailsSet

\* Array.prototype.filter with the callback above, from index i on.
RECURSIVE FilterFrom(_, _)
FilterFrom(unfiltered, i) ==
  IF i > Len(unfiltered) THEN <<>>
  ELSE (IF KeepEmail(unfiltered[i], i, unfiltered)
        THEN <<unfiltered[i]>> ELSE <<>>)
         \o FilterFrom(unfiltered, i + 1)

\* for (const email of newEmails) newEmailsSet.add(email)
AddNewEmails_Skip(set, newEmails) == set

AddNewEmails_Replace(set, newEmails) == Range(newEmails)

AddNewEmails(set, newEmails) == set \cup Range(newEmails)

\* packages.push(...fetchedPackages)
Push_Front(acc, items) == items \o acc

Push(acc, items) == acc \o items

\* path.join(OUT_PATH, `${query}_new_emails.txt`), as its three parts.
FileName(query) == <<"data/out", query, "_new_emails.txt">>

\* newEmails.join("\n"): the file's lines.
JoinLines(newEmails) == newEmails

\* response.objects.map((obj) => obj.package): JSON decoding allocates a new
\* object for every package of every response.
Fresh(result, first) ==
  [i \in 1..Len(result) |->
     [ref |-> first + i - 1,
      name |-> result[i].name,
      publisher |-> result[i].publisher,
      maintainers |-> result[i].maintainers]]

\* The positions at which the control flow is suspended in an await.
AwaitPoints == {"fetch", "wait800", "json", "wait5000"}

\* ------------------------------------------------------------------ Init
InitCommon ==
  /\ newEmailsSet = {}
  /\ allPackagesSet = {}
  /\ qi = 1
  /\ page = 0
  /\ completed = 0
  /\ packages = <<>>
  /\ pageCalls = <<>>
  /\ pageResults = <<>>
  /\ fetchedPackages = <<>>
  /\ attempts = 0
  /\ err = "none"
  /\ inFlight = 0
  /\ throttled = FALSE
  /\ sinceRequest = "none"
  /\ retryLogs = 0
  /\ nextRef = 1
  /\ iterations = <<>>
  /\ writes = <<>>
  /\ files = <<>>
  /\ log = {}
  /\ summary = <<>>
  /\ lastError = "none"
  /\ emails = <<>>

\* The state when the for..of loop is first reached.
Init ==
  /\ InitCommon
  /\ queries \in QueryLists
  /\ sentEmailsSet \in SentSets
  /\ retries = DefaultRetries
  /\ budget = DefaultRetries
  /\ pkg = P1
  /\ pc = "loop"

\* ------------------------------------------------------------- getPage
\* What an action of getPage leaves alone besides what it lists.
restOfProgram == <<mainVars, walkVars, extractVars>>

\* if (retries === 0) throw new Error("retries over"), which nothing
\* catches: the rejection passes through getPackages and the top-level
\* await and ends the process; writes still pending are abandoned.
RetriesOver_SkipQuery ==
  /\ pc = "getPage"
  /\ retries = 0
  /\ lastError' = "retries over"
  /\ qi' = qi + 1
  /\ pc' = "loop"
  /\ UNCHANGED <<queries, sentEmailsSet, newEmailsSet, allPackagesSet,
                 iterations, writes, files, summary, walkVars, extractVars,
                 timingVars, fetchedPackages, retries, budget, attempts, err,
                 inFlight, nextRef, log>>

RetriesOver ==
  /\ pc = "getPage"
  /\ retries = 0
  /\ lastError' = "retries over"
  /\ pc' = "aborted"
  /\ UNCHANGED <<restOfProgram, timingVars, fetchedPackages, retries, budget,
                 attempts, err, inFlight, nextRef, log>>

\* const request = await fetch(pageURL(page, query))  -- the call
IssueFetch_NoAwait ==
  /\ pc = "getPage"
  /\ retries # 0
  /\ attempts' = attempts + 1
  /\ inFlight' = inFlight + 1
  /\ throttled' = FALSE
  /\ sinceRequest' = "nodelay"
  /\ pc' = "wait800"
  /\ UNCHANGED <<restOfProgram, retryLogs, fetchedPackages, retries, budget,
                 err, nextRef, log, lastError>>

IssueFetch ==
  /\ pc = "getPage"
  /\ retries # 0
  /\ attempts' = attempts + 1
  /\ inFlight' = inFlight + 1
  /\ throttled' = FALSE
  /\ sinceRequest' = "nodelay"
  /\ pc' = "fetch"
  /\ UNCHANGED <<restOfProgram, retryLogs, fetchedPackages, retries, budget,
                 err, nextRef, log, lastError>>

\* fetch resolves with a response; await wait(800) starts.
FetchResolve_NoThrottle ==
  /\ pc = "fetch"
  /\ inFlight' = inFlight - 1
  /\ pc' = "json"
  /\ UNCHANGED <<restOfProgram, timingVars, fetchedPackages, retries, budget,
                 attempts, err, nextRef, log, lastError>>

FetchResolve ==
  /\ pc = "fetch"
  /\ inFlight' = inFlight - 1
  /\ pc' = "wait800"
  /\ UNCHANGED <<restOfProgram, timingVars, fetchedPackages, retries, budget,
                 attempts, err, nextRef, log, lastError>>

\* fetch rejects (network error); the catch block starts await wait(5000).
FetchReject ==
  /\ pc = "fetch"
  /\ inFlight' = inFlight - 1
  /\ err' = "NetworkError"
  /\ pc' = "wait5000"
  /\ UNCHANGED <<restOfProgram, timingVars, fetchedPackages, retries, budget,
                 attempts, nextRef, log, lastError>>

\* wait(800) is over; await request.json() starts.
Wait800Done ==
  /\ pc = "wait800"
  /\ throttled' = TRUE
  /\ sinceRequest' = "delayed"
  /\ pc' = "json"
  /\ UNCHANGED <<restOfProgram, retryLogs, fetchedPackages, retries, budget,
                 attempts, err, inFlight, nextRef, log, lastError>>

\* request.json() resolves with a body holding objects; getPage returns.
JsonObjects ==
  /\ pc = "json"
  /\ \E result \in PageResults :
       /\ fetchedPackages' = Fresh(result, nextRef)
       /\ nextRef' = nextRef + Len(result)
  /\ pc' = "returned"
  /\ UNCHANGED <<restOfProgram, timingVars, retries, budget, attempts, err,
                 inFlight, log, lastError>>

\* request.json() resolves with a body without objects.
JsonNoObjects ==
  /\ pc = "json"
  /\ err' = "No objects returned."
  /\ pc' = "wait5000"
  /\ UNCHANGED <<restOfProgram, timingVars, fetchedPackages, retries, budget,
                 attempts, inFlight, nextRef, log, lastError>>

\* request.json() rejects: the body is not JSON.
JsonReject ==
  /\ pc = "json"
  /\ err' = "ParseError"
  /\ pc' = "wait5000"
  /\ UNCHANGED <<restOfProgram, timingVars, fetchedPackages, retries, budget,
                 attempts, inFlight, nextRef, log, lastError>>

\* wait(5000) is over: console.log("retry", err);
\* return getPage(page, query, retries - 1), a new invocation, which has no
\* err in scope.
Wait5000Done_NoDecrement ==
  /\ pc = "wait5000"
  /\ log' = log \cup {"retry"}
  /\ retryLogs' = retryLogs + 1
  /\ throttled' = FALSE
  /\ sinceRequest' = "delayed"
  /\ err' = "none"
  /\ pc' = "getPage"
  /\ UNCHANGED <<restOfProgram, fetchedPackages, retries, budget, attempts,
                 inFlight, nextRef, lastError>>

Wait5000Done ==
  /\ pc = "wait5000"
  /\ log' = log \cup {"retry"}
  /\ retryLogs' = retryLogs + 1
  /\ throttled' = FALSE
  /\ sinceRequest' = "delayed"
  /\ retries' = retries - 1
  /\ err' = "none"
  /\ pc' = "getPage"
  /\ UNCHANGED <<restOfProgram, fetchedPackages, budget, attempts, inFlight,
                 nextRef, lastError>>

\* ---------------------------------------------------------- getPackages
\* The loop head of the main loop with a query left: getPackages(query) up
\* to its first call of getPage.
QueryStart ==
  /\ pc = "loop"
  /\ qi <= Len(queries)
  /\ log' = log \cup {"Fetching"}
  /\ completed' = 0
  /\ packages' = <<>>
  /\ page' = 0
  /\ pageCalls' = <<0>>
  /\ pageResults' = <<>>
  /\ retries' = DefaultRetries
  /\ budget' = DefaultRetries
  /\ attempts' = 0
  /\ retryLogs' = 0
  /\ pc' = "getPage"
  /\ UNCHANGED <<mainVars, extractVars, throttled, sinceRequest,
                 fetchedPackages, err, inFlight, nextRef, lastError>>

\* The body of getPackages' loop after getPage returned, up to the next
\* call of getPage or to the return of packages.  The finished invocation's
\* locals are gone: fetchedPackages, retries and attempts start afresh.
PageDone ==
  /\ pc = "returned"
  /\ completed' = completed + 1
  /\ log' = log \cup {"Completed"}
  /\ packages' = Push(packages, fetchedPackages)
  /\ pageResults' = Append(pageResults, fetchedPackages)
  /\ page' = page + 1
  /\ pageCalls' = IF page + 1 < PAGES_PER_QUERY
                  THEN Append(pageCalls, page + 1) ELSE pageCalls
  /\ fetchedPackages' = <<>>
  /\ retries' = DefaultRetries
  /\ budget' = DefaultRetries
  /\ attempts' = 0
  /\ retryLogs' = 0
  /\ throttled' = FALSE
  /\ pc' = IF page + 1 < PAGES_PER_QUERY THEN "getPage" ELSE "process"
  /\ UNCHANGED <<mainVars, extractVars, sinceRequest, err, inFlight, nextRef,
                 lastError>>

\* ------------------------------------------------------------ main loop
\* The body of the main loop after getPackages returned.
ProcessQuery ==
  /\ pc = "process"
  /\ LET unfiltered == FlatMapEmails(packages)
         newEmails == FilterFrom(unfiltered, 1)
     IN /\ allPackagesSet' = allPackagesSet \cup Range(packages)
        /\ writes' = Append(writes, [file |-> FileName(queries[qi]),
                                      content |-> JoinLines(newEmails),
                                      status |-> "pending"])
        /\ newEmailsSet' = AddNewEmails(newEmailsSet, newEmails)
        /\ iterations' = Append(iterations, [unfiltered |-> unfiltered,
                                              prior |-> newEmailsSet,
                                              newEmails |-> newEmails])
  /\ qi' = qi + 1
  /\ pc' = "loop"
  /\ UNCHANGED <<queries, sentEmailsSet, files, summary, walkVars,
                 extractVars, timingVars, fetchedPackages, retries, budget,
                 attempts, err, inFlight, nextRef, log, lastError>>

\* The loop is over: the final console.log.
Summary ==
  /\ pc = "loop"
  /\ qi > Len(queries)
  /\ summary' = <<[newEmails |-> Cardinality(newEmailsSet),
                   files |-> Len(queries),
                   packages |-> Cardinality(allPackagesSet)]>>
  /\ log' = log \cup {"Wrote"}
  /\ pc' = "done"
  /\ UNCHANGED <<queries, sentEmailsSet, newEmailsSet, allPackagesSet, qi,
                 iterations, writes, files, walkVars, extractVars, timingVars,
                 fetchedPackages, retries, budget, attempts, err, inFlight,
                 nextRef, lastError>>

\* --------------------------------------------------------- fs.writeFile
\* The promise of a pending fs.writeFile resolves: the file holds the data.
WriteComplete ==
  /\ pc \in AwaitPoints \cup {"done"}
  /\ \E k \in 1..Len(writes) :
       /\ writes[k].status = "pending"
       /\ files' = (writes[k].file :> writes[k].content) @@ files
       /\ writes' = [writes EXCEPT ![k].status = "done"]
  /\ UNCHANGED <<queries, sentEmailsSet, newEmailsSet, allPackagesSet, qi,
                 iterations, summary, walkVars, extractVars, timingVars,
                 fetchedPackages, retries, budget, attempts, err, inFlight,
                 nextRef, log, lastError, pc>>

\* The promise of a pending fs.writeFile rejects.  The call has no await and
\* no catch, so this is an unhandled rejection, which ends the process.
WriteFail ==
  /\ pc \in AwaitPoints \cup {"done"}
  /\ \E k \in 1..Len(writes) :
       /\ writes[k].status = "pending"
       /\ writes' = [writes EXCEPT ![k].status = "failed"]
  /\ lastError' = "unhandled rejection"
  /\ inFlight' = 0
  /\ pc' = "crashed"
  /\ UNCHANGED <<queries, sentEmailsSet, newEmailsSet, allPackagesSet, qi,
                 iterations, files, summary, walkVars, extractVars,
                 timingVars, fetchedPackages, retries, budget, attempts, err,
                 nextRef, log>>

\* ------------------------------------------------------- specifications
GetPageStep ==
  \/ RetriesOver
  \/ IssueFetch
  \/ FetchResolve
  \/ FetchReject
  \/ Wait800Done
  \/ JsonObjects
  \/ JsonNoObjects
  \/ JsonReject
  \/ Wait5000Done

Next ==
  \/ QueryStart
  \/ GetPageStep
  \/ PageDone
  \/ ProcessQuery
  \/ Summary
  \/ WriteComplete
  \/ WriteFail

\* The whole program.
Spec == Init /\ [][Next]_vars

\* The whole program when every fetch, wait and write that was started
\* settles and the flow goes on whenever it can.
FairSpec == Spec /\ WF_vars(Next)

\* getPage on its own, started with any retry budget.
InitRetry ==
  /\ InitCommon
  /\ queries \in QueryLists
  /\ sentEmailsSet = {}
  /\ budget \in 0..MaxRetries
  /\ retries = budget
  /\ pkg = P1
  /\ pc = "getPage"

SpecRetry == InitRetry /\ [][GetPageStep]_vars

\* getEmailsFromPackage on its own, applied to any package.
InitExtract ==
  /\ InitCommon
  /\ queries = <<"foo">>
  /\ sentEmailsSet = {}
  /\ retries = DefaultRetries
  /\ budget = DefaultRetries
  /\ pkg \in PackageDomain
  /\ pc = "extract"

Extract ==
  /\ pc = "extract"
  /\ emails' = getEmailsFromPackage(pkg)
  /\ pc' = "extracted"
  /\ UNCHANGED <<mainVars, walkVars, timingVars, pkg, fetchedPackages,
                 retries, budget,
                 attempts, err, inFlight, nextRef, log, lastError>>

SpecExtract == InitExtract /\ [][Extract]_vars

\* ------------------------------------------- the top-packages script
\* The second script of src/scripts/index.ts (lines 236-359) walks the
\* registry's popularity ranking with no search query.  It is modelled from
\* its first getPage call up to the point where the remainder URL is built
\* or found unnecessary; the request for the remainder and the files
\* written afterwards are not modelled.  The variables are those of the
\* first script: packages is the outer `const packages`, fetchedPackages
\* the `const packages` of the loop body.

\* The message of the error buildURL throws.
Thrown == "Max > 250 - the registry can't handle more than this."

\* function buildURL(index, max = 250): the error it throws, if any, and
\* the query parameters it fills in.
buildURL(index, max) ==
  [error |-> IF max > RegistryMax THEN Thrown ELSE "none",
   size |-> max, from |-> index]

\* function pageURL(page)
pageURL(p) == buildURL(p * RegistryMax, RegistryMax)

\* The bodies the registry answers a page request with: at most RegistryMax
\* packages, in any order.
TopPages == UNION {[1..n -> {P1, P2}] : n \in 0..RegistryMax}

\* What an action of the top-packages script leaves alone besides what it
\* lists.
restOfTop ==
  <<mainVars, timingVars, extractVars, pageCalls, budget, nextRef>>

InitTop ==
  /\ InitCommon
  /\ queries = <<"foo">>
  /\ sentEmailsSet = {}
  /\ retries = DefaultRetries
  /\ budget = DefaultRetries
  /\ pkg = P1
  /\ pc = "topGetPage"

\* if (retries === 0) throw new Error('retries over'), uncaught.
TopRetriesOver ==
  /\ pc = "topGetPage"
  /\ retries = 0
  /\ lastError' = "retries over"
  /\ pc' = "aborted"
  /\ UNCHANGED <<restOfTop, page, completed, packages, pageResults,
                 fetchedPackages, retries, attempts, err, inFlight, log>>

\* const request = await fetch(pageURL(page))
TopIssueFetch ==
  /\ pc = "topGetPage"
  /\ retries # 0
  /\ pageURL(page).error = "none"
  /\ inFlight' = inFlight + 1
  /\ attempts' = attempts + 1
  /\ pc' = "topFetch"
  /\ UNCHANGED <<restOfTop, page, completed, packages, pageResults,
                 fetchedPackages, retries, err, log, lastError>>

\* fetch resolves; await request.json() starts.
TopFetchResolve ==
  /\ pc = "topFetch"
  /\ inFlight' = inFlight - 1
  /\ pc' = "topJson"
  /\ UNCHANGED <<restOfTop, page, completed, packages, pageResults,
                 fetchedPackages, retries, attempts, err, log, lastError>>

\* fetch rejects: catch (err) { console.log('retry', err);
\* return getPage(page, retries - 1) }, with no delay.
TopFetchReject ==
  /\ pc = "topFetch"
  /\ inFlight' = inFlight - 1
  /\ err' = "NetworkError"
  /\ log' = log \cup {"retry"}
  /\ retries' = retries - 1
  /\ pc' = "topGetPage"
  /\ UNCHANGED <<restOfTop, page, completed, packages, pageResults,
                 fetchedPackages, attempts, lastError>>

\* request.json() resolves with an objects array:
\* return objects.map((obj) => obj.package)
TopJsonObjects ==
  /\ pc = "topJson"
  /\ \E result \in TopPages : fetchedPackages' = result
  /\ pc' = "topReturned"
  /\ UNCHANGED <<restOfTop, page, completed, packages, pageResults, retries,
                 attempts, err, inFlight, log, lastError>>

\* request.json() rejects, or the body has no objects and objects.map
\* throws a TypeError: the same catch block.
TopJsonFail ==
  /\ pc = "topJson"
  /\ err' \in {"ParseError", "TypeError"}
  /\ log' = log \cup {"retry"}
  /\ retries' = retries - 1
  /\ pc' = "topGetPage"
  /\ UNCHANGED <<restOfTop, page, completed, packages, pageResults,
                 fetchedPackages, attempts, inFlight, lastError>>

\* The loop body after `const packages = await getPage(i)`: the block's
\* own packages shadows the outer one, so packages.push(...packages)
\* appends the page to itself and the outer array is not touched.
TopLoopBody ==
  /\ completed' = completed + 1
  /\ log' = log \cup {"progress"}
  /\ pageResults' = Append(pageResults, fetchedPackages)
  /\ fetchedPackages' = fetchedPackages \o fetchedPackages
  /\ packages' = packages
  /\ page' = page + 1
  /\ attempts' = 0
  /\ err' = "none"

\* A page other than the last has returned: the next getPage(i) starts.
TopPageDone ==
  /\ pc = "topReturned"
  /\ page + 1 < requestAmount
  /\ TopLoopBody
  /\ retries' = DefaultRetries
  /\ pc' = "topGetPage"
  /\ UNCHANGED <<restOfTop, inFlight, lastError>>

\* The last page has returned: the loop ends and, with no await in
\* between, if (packages.length !== 10000) builds the remainder URL from
\* the outer packages.
TopLastPageDone ==
  /\ pc = "topReturned"
  /\ page + 1 = requestAmount
  /\ TopLoopBody
  /\ retries' = retries
  /\ IF Len(packages') # TopTotal
       THEN LET remaining == TopTotal - Len(packages')
                fetchURL == buildURL(Len(packages'), remaining)
            IN  IF fetchURL.error # "none"
                  THEN /\ lastError' = Thrown
                       /\ inFlight' = inFlight
                       /\ pc' = "aborted"
                  ELSE /\ lastError' = lastError
                       /\ inFlight' = inFlight + 1
                       /\ pc' = "remainderFetch"
       ELSE /\ lastError' = lastError
            /\ inFlight' = inFlight
            /\ pc' = "topWrite"
  /\ UNCHANGED restOfTop

NextTop ==
  \/ TopRetriesOver
  \/ TopIssueFetch
  \/ TopFetchResolve
  \/ TopFetchReject
  \/ TopJsonObjects
  \/ TopJsonFail
  \/ TopPageDone
  \/ TopLastPageDone

SpecTop == InitTop /\ [][NextTop]_vars

\* --------------------------------------------------------------- claims
\* The indices of u that a first-occurrence filter against two sets keeps.
KeptPositions(u, sent, prior) ==
  {i \in 1..Len(u) :
     /\ \A j \in 1..(i - 1) : u[j] # u[i]
     /\ u[i] \notin sent
     /\ u[i] \notin prior}

\* The n-th smallest element of a set of indices.
NthOf(S, n) == CHOOSE i \in S : Cardinality({j \in S : j < i}) = n - 1

\* r is the subsequence of u at the indices S, in the order of u.
IsSubsequenceAt(r, u, S) ==
  /\ Len(r) = Cardinality(S)
  /\ \A n \in 1..Len(r) : r[n] = u[NthOf(S, n)]

\* C1: with retry budget 2, once the Fetcher has failed on the first two
\* attempts the wrapper goes on to the third attempt (whose page it would
\* return); it does not surface the fatal "retries over" error instead.
C1_ThirdAttemptAfterTwoFailures ==
  (budget = 2 /\ budget - retries = 2) => lastError # "retries over"

\* C2: with retry budget N >= 1 and a Fetcher that fails on every attempt,
\* exactly N+1 fetch attempts have been made when "retries over" surfaces.
C2_AttemptsBeforeFatal ==
  (budget >= 1 /\ lastError = "retries over") => attempts = budget + 1

\* C3: the email list computed for any query's output file, and so every
\* file written, contains no member of the SentEmailSet loaded at startup.
C3_NoSentEmailInOutput ==
  /\ \A k \in 1..Len(writes) :
       \A i \in 1..Len(writes[k].content) :
         writes[k].content[i] \notin sentEmailsSet
  /\ \A f \in DOMAIN files :
       \A i \in 1..Len(files[f]) : files[f][i] \notin sentEmailsSet

C3_Witness ==
  \E k \in 1..Len(writes) :
    /\ Range(iterations[k].unfiltered) \cap sentEmailsSet # {}
    /\ writes[k].content # <<>>
    /\ writes[k].status = "done"

\* C4: for any two queries processed in this order, no email is in both
\* lists written; an email both queries surfaced is not in the later list.
C4_NoEmailInTwoOutputs ==
  \A k1 \in 1..Len(writes) : \A k2 \in (k1 + 1)..Len(writes) :
    /\ Range(writes[k1].content) \cap Range(writes[k2].content) = {}
    /\ \A e \in Range(iterations[k1].unfiltered)
                  \cap Range(iterations[k2].unfiltered) :
         e \notin Range(writes[k2].content)

C4_Witness ==
  \E k1 \in 1..Len(writes) : \E k2 \in (k1 + 1)..Len(writes) :
    \E e \in Range(iterations[k1].unfiltered)
               \cap Range(iterations[k2].unfiltered) :
      e \in Range(writes[k1].content)

\* C5: once getPage has surfaced "retries over" for a page of query Q the
\* run is over: no request is in flight and none is issued afterwards, no
\* further page of Q and no later query is started, no writeFile call was or
\* is made for Q, no summary is printed, and the files stay as they were.
C5_Halted ==
  lastError = "retries over" =>
    /\ pc = "aborted"
    /\ inFlight = 0
    /\ qi <= Len(queries)
    /\ page < PAGES_PER_QUERY
    /\ Len(writes) = qi - 1
    /\ Len(iterations) = qi - 1
    /\ summary = <<>>

C5_RetryExhaustionIsFatal ==
  /\ []C5_Halted
  /\ [][lastError = "retries over" =>
          UNCHANGED <<attempts, inFlight, page, completed, qi, writes, files,
                      newEmailsSet, summary>>]_vars

C5_Witness ==
  /\ lastError = "retries over"
  /\ qi = 2
  /\ page = 1
  /\ writes[1].status = "done"
  /\ FileName(queries[1]) \in DOMAIN files

\* C6: for every query the retained list is the subsequence of the flattened
\* extracted emails at the positions holding the first occurrence of a value
\* that is neither in SentEmailSet nor in NewEmailSet as it stood before the
\* query, in the order of the sequence; so no value is retained twice.
C6_RetainedIsFirstOccurrenceSubsequence ==
  \A k \in 1..Len(iterations) :
    LET it == iterations[k]
    IN /\ IsSubsequenceAt(it.newEmails, it.unfiltered,
                          KeptPositions(it.unfiltered, sentEmailsSet, it.prior))
       /\ \A m, n \in 1..Len(it.newEmails) :
            m # n => it.newEmails[m] # it.newEmails[n]

C6_Witness ==
  \E k \in 1..Len(iterations) :
    LET u == iterations[k].unfiltered
    IN /\ \E i \in 1..Len(u) : u[i] \in iterations[k].prior
       /\ \E i \in 1..Len(u) : u[i] \in sentEmailsSet
       /\ \E i \in 1..Len(u) : \E j \in (i + 1)..Len(u) :
            u[i] = u[j] /\ u[i] \in Range(iterations[k].newEmails)
       /\ Len(iterations[k].newEmails) >= 1

\* C7: when a later query extracts the same sequence as an earlier one (a
\* second pass of the Deduplicator, after the first pass's retained emails
\* were added to NewEmailSet), the later pass retains nothing.
C7_SecondPassRetainsNothing ==
  \A k1 \in 1..Len(iterations) : \A k2 \in (k1 + 1)..Len(iterations) :
    iterations[k1].unfiltered = iterations[k2].unfiltered
      => iterations[k2].newEmails = <<>>

C7_Witness ==
  \E k1 \in 1..Len(iterations) : \E k2 \in (k1 + 1)..Len(iterations) :
    /\ iterations[k1].unfiltered = iterations[k2].unfiltered
    /\ iterations[k1].newEmails # <<>>

\* C8: getEmailsFromPackage returns the publisher's email if present and
\* non-empty, followed by the maintainers' non-empty emails in listed order;
\* absent or non-array maintainers contribute nothing; nothing else is in
\* the result.
C8_PublisherThenMaintainers ==
  pc = "extracted" =>
    LET pub == IF pkg.publisher.present
                  /\ pkg.publisher.email \notin {"", Undefined}
               THEN <<pkg.publisher.email>> ELSE <<>>
        listed == IF pkg.maintainers.kind = "array"
                  THEN pkg.maintainers.items ELSE <<>>
        S == {i \in 1..Len(listed) : listed[i].email \notin {"", Undefined}}
    IN /\ Len(emails) = Len(pub) + Cardinality(S)
       /\ pub # <<>> => emails[1] = pub[1]
       /\ \A n \in 1..Cardinality(S) :
            emails[Len(pub) + n] = listed[NthOf(S, n)].email

C8_Witness ==
  /\ pc = "extracted"
  /\ pkg.publisher.present
  /\ pkg.publisher.email = "b@x.com"
  /\ pkg.maintainers.kind = "array"
  /\ Len(pkg.maintainers.items) = 2
  /\ pkg.maintainers.items[1].email = ""
  /\ pkg.maintainers.items[2].email = "a@x.com"
  /\ emails = <<"b@x.com", "a@x.com">>

\* The concatenation of a sequence of sequences.
RECURSIVE Concat(_)
Concat(ss) == IF ss = <<>> THEN <<>> ELSE Head(ss) \o Concat(Tail(ss))

\* C11: getPackages calls the wrapper for pages 0, 1, ... in ascending order,
\* each page once, and what it has accumulated is the concatenation of the
\* page results in page order, each appended once; when it returns, that is
\* pages 0 .. PAGES_PER_QUERY-1.
C11_PagesInOrder ==
  /\ \A i \in 1..Len(pageCalls) : pageCalls[i] = i - 1
  /\ Len(pageResults) = completed
  /\ Len(pageResults) \in {Len(pageCalls) - 1, Len(pageCalls)}
  /\ packages = Concat(pageResults)
  /\ pc = "process" =>
       /\ Len(pageCalls) = PAGES_PER_QUERY
       /\ Len(pageResults) = PAGES_PER_QUERY

C11_Witness ==
  /\ pc = "process"
  /\ "retry" \in log
  /\ qi = 2
  /\ packages[1].name # packages[2].name

\* C9: a failed write of one query's output file is logged by the program
\* and does not stop the run.
C9_WriteFailureDoesNotBlock ==
  \A k \in 1..Len(writes) :
    writes[k].status = "failed" =>
      /\ "write error" \in log
      /\ pc # "crashed"

\* C10: the "unique packages" number of the final summary is the number of
\* distinct names among all packages fetched in the run.
C10_UniquePackagesByName ==
  \A n \in 1..Len(summary) :
    summary[n].packages = Cardinality({p.name : p \in allPackagesSet})

\* C12: at most one HTTP request is in flight, and while one is, the flow is
\* suspended on it: it is the request for the page after the ones that have
\* returned, of the query after the ones that have been finished.
C12_StrictlySequential ==
  /\ inFlight \in {0, 1}
  /\ inFlight = 1 =>
       /\ pc = "fetch"
       /\ pageCalls[Len(pageCalls)] = page
       /\ Len(pageResults) = page
       /\ completed = page
       /\ Len(iterations) = qi - 1
       /\ Len(writes) = qi - 1

C12_Witness ==
  /\ inFlight = 1
  /\ qi = 2
  /\ page = 1
  /\ attempts = 2

\* C13: getPage never returns a page without the 800ms wait having elapsed in
\* the attempt that obtained it, and no HTTP request is issued unless a wait
\* (800ms or 5000ms) has elapsed since the previous request was issued.
C13_Throttled ==
  /\ [](pc = "returned" => throttled)
  /\ [][inFlight' > inFlight => sinceRequest \in {"none", "delayed"}]_vars

C13_Witness ==
  /\ pc = "returned"
  /\ throttled
  /\ attempts = 2
  /\ page = 1
  /\ qi = 2

\* C14: a failed attempt of getPage, whatever the kind of failure, starts the
\* 5000ms wait with nothing logged and the count unchanged; when the wait is
\* over the error is logged and getPage is invoked again with the count
\* decreased by exactly 1; nothing but "retries over", raised at count 0,
\* ever reaches the caller.
C14_FailureStep ==
  /\ (err = "none" /\ err' # "none") =>
       /\ err' \in {"NetworkError", "ParseError", "No objects returned."}
       /\ pc' = "wait5000"
       /\ retries' = retries
       /\ retryLogs' = retryLogs
       /\ lastError' = "none"
  /\ (pc = "wait5000" /\ pc' # "wait5000") =>
       /\ pc' = "getPage"
       /\ retryLogs' = retryLogs + 1
       /\ "retry" \in log'
       /\ retries' = retries - 1
       /\ attempts' = attempts
  /\ (lastError = "none" /\ lastError' # "none") =>
       /\ lastError' = "retries over"
       /\ retries = 0

C14_BackoffLogRetry ==
  /\ [](retryLogs = budget - retries)
  /\ [](err # "none" <=> pc = "wait5000")
  /\ [][C14_FailureStep]_vars

C14_Witness ==
  /\ budget = 3
  /\ retries = 1
  /\ retryLogs = 2
  /\ attempts = 3
  /\ pc = "wait5000"
  /\ err = "ParseError"

\* The control flow has ended.
RunStopped == pc \in {"done", "aborted", "crashed"}

\* C15: a getPage call makes a bounded number of attempts, and the run stops
\* in one of exactly two ways: every query finished and the summary logged,
\* or aborted on a retry exhaustion.
C15_StopsInTwoWays ==
  /\ attempts <= budget + 1
  /\ RunStopped =>
       \/ pc = "done" /\ qi = Len(queries) + 1 /\ summary # <<>>
       \/ pc = "aborted" /\ lastError = "retries over"

\* The part of C15 that the program keeps: the run stops.
C15_EventuallyStops == <>RunStopped

\* C16: SentEmailSet is never modified; NewEmailSet changes only in the step
\* that finishes a query, after the filter ran against its old value, by
\* gaining that query's retained emails; it is always disjoint from
\* SentEmailSet.
C16_FrameStep ==
  /\ sentEmailsSet' = sentEmailsSet
  /\ newEmailsSet \subseteq newEmailsSet'
  /\ newEmailsSet' # newEmailsSet =>
       /\ pc = "process"
       /\ Len(iterations') = Len(iterations) + 1
       /\ iterations'[Len(iterations')].prior = newEmailsSet
       /\ newEmailsSet' =
            newEmailsSet \cup Range(iterations'[Len(iterations')].newEmails)

C16_SharedStateFrame ==
  /\ [](newEmailsSet \cap sentEmailsSet = {})
  /\ [][C16_FrameStep]_vars

C16_Witness ==
  /\ Len(iterations) = 2
  /\ sentEmailsSet # {}
  /\ iterations[1].newEmails # <<>>
  /\ iterations[2].newEmails # <<>>
  /\ newEmailsSet =
       Range(iterations[1].newEmails) \cup Range(iterations[2].newEmails)

\* C17: while a page request of a query is in flight the output files of all
\* earlier queries have been written, and once the summary is logged every
\* output file has been written.
C17_WritesAreSequential ==
  (inFlight = 1 \/ summary # <<>>) =>
    \A k \in 1..Len(writes) : writes[k].status = "done"

\* The number of lines of the files named in F.
RECURSIVE TotalLines(_)
TotalLines(F) ==
  IF F = {} THEN 0
  ELSE LET f == CHOOSE g \in F : TRUE
       IN Len(files[f]) + TotalLines(F \ {f})

\* C18: when the run has completed and every write has settled, the number
\* of new emails reported (the size of NewEmailSet) is the number of emails
\* in the output files, and every member of NewEmailSet is in a file.
C18_ReportedEqualsWritten ==
  (pc = "done" /\ \A k \in 1..Len(writes) : writes[k].status = "done") =>
    /\ summary[1].newEmails = TotalLines(DOMAIN files)
    /\ \A e \in newEmailsSet : \E f \in DOMAIN files : e \in Range(files[f])

\* Every page the loop fetched was a full page.
AllPagesFull ==
  \A k \in 1..Len(pageResults) : Len(pageResults[k]) = RegistryMax

\* C19: in the top-packages script, once the page loop is over the outer
\* packages holds the concatenation of every fetched page in page order, and
\* when every page was full buildURL has not thrown for the remainder.
C19_OuterPackagesHoldEveryPage ==
  page = requestAmount =>
    /\ packages = Concat(pageResults)
    /\ AllPagesFull => lastError # Thrown

====
